---- MODULE Spec2Model ----
(***************************************************************************)
(* Model of reporting_unittest: ReportingTestCase (step records and status *)
(* rollup), ReportingTestResult (successes / failures / errors),           *)
(* ReportingTestSuite.run (unittest's suite loop followed by writeReport). *)
(* The unittest base classes the module inherits from are modelled by what *)
(* TestSuite.run, TestCase.run and TestResult do when called from it.      *)
(***************************************************************************)
EXTENDS Integers, Sequences, FiniteSets, TLC

VARIABLES
    tests,          \* ReportingTestSuite._tests: the registered case objects, in addTest order
    index,          \* position of TestSuite.run's loop: cases 1..index have been started
    pc,             \* position inside ReportingTestSuite.run
    part,           \* position inside TestCase.run for the case being executed
    success,        \* _Outcome.success of the case being executed
    raised,         \* exceptions the parts of the case being executed have raised, in order
    result,         \* the ReportingTestResult passed to run
    allTestCases,   \* writeReport's sorted list of case objects (references into tests)
    document,       \* the HTML document written by writeReport
    returned,       \* what run handed back to its caller
    outPath,        \* ReportingTestSuite.outPath, a directory relative to the working directory
    zipReport,      \* the zipReport argument of run
    fs,             \* the file system: the directories and the files that exist
    archive,        \* the entries of the zip file written by writeReport, None when there is none
    earlier,        \* how many cases, at the front of tests, were executed by earlier calls of run
    lastCall        \* the latest reporting call: its number, the method called, the data argument, the capture outcome

vars == <<tests, index, pc, part, success, raised, result, allTestCases, document, returned, outPath, zipReport, fs, archive, earlier, lastCall>>

(***************************************************************************)
(* Bounds of the model.                                                    *)
(***************************************************************************)
\* Step Records one run may append when a single case is registered.
MaxSteps == 4
\* Cases registered in a suite.
MaxCases == 2
\* Step Records one run may append when several cases are registered.
SuiteSteps == 1
\* Step Records one run may append when screenshots are captured.
ShotSteps == 3
\* Step Records one run may append when data strings are requested.
DataSteps == 1
\* Field names one data request may list.
MaxFields == 2
\* Calls of run of the earlier-generation module.
MaxRuns == 2

None == "None"

(***************************************************************************)
(* Strings that are compared are sequences of code points; Python compares *)
(* str values lexicographically by code point, a proper prefix first.      *)
(***************************************************************************)
TC002 == <<84, 67, 48, 48, 50>>
TC010 == <<84, 67, 48, 49, 48>>
CaseIDs == {TC002, TC010}

RECURSIVE StrLess(_, _)
StrLess(a, b) ==
    IF a = <<>> THEN b # <<>>
    ELSE IF b = <<>> THEN FALSE
    ELSE IF Head(a) # Head(b) THEN Head(a) < Head(b)
    ELSE StrLess(Tail(a), Tail(b))

StrLessEq(a, b) == ~StrLess(b, a)

(***************************************************************************)
(* ReportingTestCase.status: 0 = FAIL, 1 = PASS, other = WARNING.          *)
(***************************************************************************)
FAIL == 0
PASS == 1
WARNING == 2

\* _TestEvent and its __post_init__
TestEvent(eventDescription, warning, dataString, imagePath, imageEmbed) ==
    [ type |-> "_TestEvent",
      eventDescription |-> eventDescription,
      warning |-> warning,
      dataString |-> dataString,
      imagePath |-> imagePath,
      imageEmbed |-> imageEmbed,
      statusColor |-> IF warning THEN "yellow" ELSE "antiquewhite",
      statusString |-> IF warning THEN "WARNING" ELSE "DONE" ]

\* _TestStep and its __post_init__
TestStep(stepDescription, expectedBehavior, failureBehavior, testStatus, dataString, imagePath, imageEmbed) ==
    [ type |-> "_TestStep",
      stepDescription |-> stepDescription,
      expectedBehavior |-> expectedBehavior,
      failureBehavior |-> failureBehavior,
      testStatus |-> testStatus,
      dataString |-> dataString,
      imagePath |-> imagePath,
      imageEmbed |-> imageEmbed,
      statusColor |-> IF testStatus THEN "green" ELSE "red",
      statusString |-> IF testStatus THEN "PASS" ELSE "FAIL",
      actualBehavior |-> IF testStatus THEN expectedBehavior ELSE failureBehavior ]

\* ReportingTestCase.__init__; data (the keyword arguments) is a dict: its keys
\* and the value of each key
NewCase(testCaseID, testCaseDescription, data) ==
    [ testCaseID |-> testCaseID,
      testCaseDescription |-> testCaseDescription,
      data |-> data,
      status |-> PASS,
      steps |-> <<>> ]

\* ReportingTestCase.statusColor
statusColor(case) ==
    IF case.status = 0 THEN "red"
    ELSE IF case.status = 1 THEN "green"
    ELSE "yellow"

\* a status label that knows FAIL and PASS only
statusStringTwoWay(case) == IF case.status = 0 THEN "FAIL" ELSE "PASS"

\* ReportingTestCase.statusString
statusString(case) ==
    IF case.status = 0 THEN "FAIL"
    ELSE IF case.status = 1 THEN "PASS"
    ELSE "WARNING"

(***************************************************************************)
(* _makeDataString. A data argument is None, a str or a list of field      *)
(* names; a string built by formatting and joining is the sequence of its  *)
(* pieces, '' the empty sequence.                                          *)
(***************************************************************************)
FieldNames == {"a", "b", "c"}
NoData == [kind |-> "None", text |-> "", fields |-> <<>>]
StrData(text) == [kind |-> "str", text |-> text, fields |-> <<>>]
ListData(fields) == [kind |-> "list", text |-> "", fields |-> fields]

\* the keyword arguments a case is constructed with: none, or a=1, b=2
EmptyDict == [keys |-> {}, val |-> [k \in FieldNames |-> 0]]
DictAB == [keys |-> {"a", "b"}, val |-> [k \in FieldNames |-> IF k = "a" THEN 1 ELSE IF k = "b" THEN 2 ELSE 0]]

\* str() of a natural number: its decimal digits
RECURSIVE pyStr(_)
pyStr(n) ==
    LET digit == <<"0", "1", "2", "3", "4", "5", "6", "7", "8", "9">>
    IN  IF n < 10 THEN <<digit[n + 1]>>
        ELSE pyStr(n \div 10) \o <<digit[(n % 10) + 1]>>

\* f"{k}: '{self.data[k]}'"
dataRow(dict, k) == <<k, ": '">> \o pyStr(dict.val[k]) \o <<"'">>

\* '<br>'.join(rows)
RECURSIVE joinBr(_)
joinBr(rows) ==
    IF rows = <<>> THEN <<>>
    ELSE IF Len(rows) = 1 THEN rows[1]
    ELSE rows[1] \o <<"<br>">> \o joinBr(Tail(rows))

\* _makeDataString with the filter left out and dict.get in place of the subscript
makeDataStringUnfiltered(case, data) ==
    IF data.kind = "list"
    THEN joinBr([i \in 1 .. Len(data.fields) |->
                   IF data.fields[i] \in case.data.keys
                   THEN dataRow(case.data, data.fields[i])
                   ELSE <<data.fields[i], ": '", "None", "'">>])
    ELSE IF data.kind = "str" THEN <<data.text>>
    ELSE <<>>

\* ReportingTestCase._makeDataString
makeDataString(case, data) ==
    IF data.kind = "list"
    THEN LET isKey(k) == k \in case.data.keys
             filteredRows == SelectSeq(data.fields, isKey)
         IN  joinBr([i \in 1 .. Len(filteredRows) |-> dataRow(case.data, filteredRows[i])])
    ELSE IF data.kind = "str" THEN <<data.text>>
    ELSE <<>>

(***************************************************************************)
(* Paths. A directory is the sequence of its components below the working  *)
(* directory; a file is its directory and its name, the name being the     *)
(* sequence of the strings it is concatenated from.                        *)
(***************************************************************************)
Cwd == <<>>
File(dir, name) == [dir |-> dir, name |-> name]
\* imagePath = None
NoPath == File(<<>>, <<>>)

\* the case ID as a path component
idText(id) == IF id = TC002 THEN "TC002" ELSE "TC010"

IsPrefix(root, dir) == Len(root) <= Len(dir) /\ SubSeq(dir, 1, Len(root)) = root
Parent(dir) == SubSeq(dir, 1, Len(dir) - 1)

\* the capture targets: none, the whole screen, a locator of an element
Elements == {None, "screen", "locator"}

\* the image name without the step counter in front
imageNameUnnumbered(case, description) ==
    File(<<".screenshots", idText(case.testCaseID)>>, <<description, ".png">>)

\* pjoin(outFolder, str(len(self.steps) + 1) + " - " + description + ".png")
imageName(case, description) ==
    File(<<".screenshots", idText(case.testCaseID)>>,
         pyStr(Len(case.steps) + 1) \o <<" - ", description, ".png">>)

\* ReportingTestCase._screenshot: mkdir of the case's folder when it is missing
\* (os.mkdir raises when the parent is missing), then the driver's screenshot into
\* imagePath, which raises when the driver does not find the target (found)
screenshot(case, fsys, element, description, found) ==
    LET outFolder == <<".screenshots", idText(case.testCaseID)>>
        imagePath == imageName(case, description)
    IN  IF outFolder \notin fsys.dirs /\ Parent(outFolder) \notin fsys.dirs
        THEN [raised |-> TRUE, fs |-> fsys, imagePath |-> NoPath]
        ELSE LET made == [fsys EXCEPT !.dirs = @ \cup {outFolder}]
             IN  IF found
                 THEN [raised |-> FALSE,
                       fs |-> [made EXCEPT !.files = @ \cup {imagePath}],
                       imagePath |-> imagePath]
                 ELSE [raised |-> TRUE, fs |-> made, imagePath |-> NoPath]

\* the first lines of reportEvent and reportStep: imagePath = None, or _screenshot
captureIfAsked(case, fsys, element, description, found) ==
    IF element = None
    THEN [raised |-> FALSE, fs |-> fsys, imagePath |-> NoPath]
    ELSE screenshot(case, fsys, element, description, found)

\* reportEvent with the "and self.status == 1" test left out
reportEventAlwaysWarns(case, fsys, eventDescription, warning, data, imageEmbed, element, found) ==
    LET shot == captureIfAsked(case, fsys, element, eventDescription, found)
    IN  [ raised |-> shot.raised, fs |-> shot.fs,
          case |-> IF shot.raised THEN case
                   ELSE [case EXCEPT !.steps = Append(@, TestEvent(eventDescription, warning,
                                                       makeDataString(case, data), shot.imagePath, imageEmbed)),
                                     !.status = IF warning THEN 2 ELSE @] ]

\* reportEvent appending the record before the capture
reportEventAppendsFirst(case, fsys, eventDescription, warning, data, imageEmbed, element, found) ==
    LET shot == captureIfAsked(case, fsys, element, eventDescription, found)
    IN  [ raised |-> shot.raised, fs |-> shot.fs,
          case |-> [case EXCEPT !.steps = Append(@, TestEvent(eventDescription, warning,
                                                  makeDataString(case, data), shot.imagePath, imageEmbed)),
                                !.status = IF warning /\ case.status = 1 THEN 2 ELSE @] ]

\* ReportingTestCase.reportEvent: what the call leaves behind: whether it raised,
\* the file system, the case
reportEvent(case, fsys, eventDescription, warning, data, imageEmbed, element, found) ==
    LET shot == captureIfAsked(case, fsys, element, eventDescription, found)
        appended == Append(case.steps,
                           TestEvent(eventDescription, warning,
                                     makeDataString(case, data), shot.imagePath, imageEmbed))
    IN  [ raised |-> shot.raised, fs |-> shot.fs,
          case |-> IF shot.raised THEN case
                   ELSE [case EXCEPT !.steps = appended,
                                     !.status = IF warning /\ case.status = 1 THEN 2 ELSE @] ]

\* reportStep failing a case only when its status is PASS
reportStepFailsFromPassOnly(case, fsys, stepDescription, expectedBehavior, failureBehavior, testStatus, data, imageEmbed, element, found) ==
    LET shot == captureIfAsked(case, fsys, element, stepDescription, found)
    IN  [ raised |-> shot.raised, fs |-> shot.fs,
          case |-> IF shot.raised THEN case
                   ELSE [case EXCEPT !.steps = Append(@, TestStep(stepDescription, expectedBehavior, failureBehavior,
                                                       testStatus, makeDataString(case, data), shot.imagePath, imageEmbed)),
                                     !.status = IF ~testStatus /\ case.status = 1 THEN 0 ELSE @] ]

\* reportStep assigning the status from the latest outcome alone
reportStepLatestOutcome(case, fsys, stepDescription, expectedBehavior, failureBehavior, testStatus, data, imageEmbed, element, found) ==
    LET shot == captureIfAsked(case, fsys, element, stepDescription, found)
    IN  [ raised |-> shot.raised, fs |-> shot.fs,
          case |-> IF shot.raised THEN case
                   ELSE [case EXCEPT !.steps = Append(@, TestStep(stepDescription, expectedBehavior, failureBehavior,
                                                       testStatus, makeDataString(case, data), shot.imagePath, imageEmbed)),
                                     !.status = IF testStatus THEN 1 ELSE 0] ]

\* ReportingTestCase.reportStep: what the call leaves behind: whether it raised,
\* the file system, the case
reportStep(case, fsys, stepDescription, expectedBehavior, failureBehavior, testStatus, data, imageEmbed, element, found) ==
    LET shot == captureIfAsked(case, fsys, element, stepDescription, found)
        appended == Append(case.steps,
                           TestStep(stepDescription, expectedBehavior, failureBehavior,
                                    testStatus, makeDataString(case, data), shot.imagePath, imageEmbed))
    IN  [ raised |-> shot.raised, fs |-> shot.fs,
          case |-> IF shot.raised THEN case
                   ELSE [case EXCEPT !.steps = appended,
                                     !.status = IF ~testStatus /\ case.status # 0 THEN 0 ELSE @] ]

\* Python truth value of the values the assert wrappers are called with
Values == {0, 1}
bool(expr) == expr # 0

\* the testStatus of assertFalse with the "not" left out
assertFalseStatusUnnegated(expr) == bool(expr)

\* what the four wrappers compute as testStatus before they call reportStep
assertTrueStatus(expr) == bool(expr)
assertFalseStatus(expr) == ~bool(expr)
assertEqualStatus(first, second) == first = second
assertNotEqualStatus(first, second) == ~(first = second)

\* assertTrue without the call of super().assertTrue
superAssertTrueOmitted(expr) == FALSE

\* whether the unittest assertion each wrapper delegates to raises failureException
superAssertTrueRaises(expr) == ~bool(expr)
superAssertFalseRaises(expr) == bool(expr)
superAssertEqualRaises(first, second) == ~(first = second)
superAssertNotEqualRaises(first, second) == ~(first # second)

(***************************************************************************)
(* ReportingTestResult: TestResult plus the successes list. The lists hold *)
(* references (positions in tests) to the case objects.                    *)
(***************************************************************************)
\* a result constructed with failfast switched on
NewResultFailfast ==
    [ successes |-> <<>>, failures |-> <<>>, errors |-> <<>>,
      failfast |-> TRUE, shouldStop |-> FALSE ]

\* ReportingTestResult.__init__
NewResult ==
    [ successes |-> <<>>, failures |-> <<>>, errors |-> <<>>,
      failfast |-> FALSE, shouldStop |-> FALSE ]

\* ReportingTestResult.addSuccess
addSuccess(res, test) == [res EXCEPT !.successes = Append(@, test)]

\* TestResult.addFailure (inherited, @failfast)
addFailure(res, test) ==
    [res EXCEPT !.failures = Append(@, test),
                !.shouldStop = IF res.failfast THEN TRUE ELSE @]

\* TestResult.addError (inherited, @failfast)
addError(res, test) ==
    [res EXCEPT !.errors = Append(@, test),
                !.shouldStop = IF res.failfast THEN TRUE ELSE @]

\* every exception filed as an error
fileExceptionAsError(res, test, exc) == addError(res, test)

\* how unittest files an exception caught around one part of a case:
\* failureException (AssertionError) is a failure, anything else an error
fileException(res, test, exc) ==
    IF exc = "AssertionError" THEN addFailure(res, test) ELSE addError(res, test)

\* what a part of a case (setUp, the test method, tearDown) can end with
Exceptions == {"AssertionError", "Exception"}
PartOutcomes == {None} \cup Exceptions

\* number of Step Records appended so far in this run
RECURSIVE TotalSteps(_)
TotalSteps(ts) == IF ts = <<>> THEN 0 ELSE Len(Head(ts).steps) + TotalSteps(Tail(ts))

(***************************************************************************)
(* writeReport                                                             *)
(***************************************************************************)
\* list.sort(key=lambda a: a.testCaseID): stable, ascending by str comparison.
\* Insert one element behind every element whose key is not greater.
RECURSIVE insertByID(_, _, _)
insertByID(ts, sorted, c) ==
    IF sorted = <<>> THEN <<c>>
    ELSE IF StrLess(ts[c].testCaseID, ts[Head(sorted)].testCaseID)
         THEN <<c>> \o sorted
         ELSE <<Head(sorted)>> \o insertByID(ts, Tail(sorted), c)

\* allTestCases left in bucket order
sortOmitted(ts, cases) == cases

\* allTestCases sorted by the position of the case in the suite
RECURSIVE sortByRegistration(_, _)
sortByRegistration(ts, cases) ==
    IF cases = <<>> THEN <<>>
    ELSE LET m == CHOOSE i \in 1 .. Len(cases) :
                    \A j \in 1 .. Len(cases) : cases[i] <= cases[j] /\ (cases[i] = cases[j] => i <= j)
         IN  <<cases[m]>> \o sortByRegistration(ts, SubSeq(cases, 1, m - 1) \o SubSeq(cases, m + 1, Len(cases)))

RECURSIVE sortByID(_, _)
sortByID(ts, cases) ==
    IF cases = <<>> THEN <<>>
    ELSE insertByID(ts, sortByID(ts, SubSeq(cases, 1, Len(cases) - 1)), cases[Len(cases)])

\* chain(succs, fails, errors)
chainBuckets(res) == res.successes \o res.failures \o res.errors

\* the screenshot cell of one step row
\* the screenshot cell with the embed flag tested before the image path
screenshotCellEmbedFirst(step) ==
    IF step.imageEmbed THEN [form |-> "image", src |-> step.imagePath]
    ELSE IF step.imagePath = NoPath THEN [form |-> "N/A", src |-> NoPath]
    ELSE [form |-> "link", src |-> step.imagePath]

\* the last cell of a row: N/A, <image src=imagePath> or <a href=imagePath>Link</a>
screenshotCell(step) ==
    IF step.imagePath = NoPath THEN [form |-> "N/A", src |-> NoPath]
    ELSE IF step.imageEmbed THEN [form |-> "image", src |-> step.imagePath]
    ELSE [form |-> "link", src |-> step.imagePath]

\* one <tr> of the step table, numbered as enumerate(case.steps) numbers it
stepRowZeroBased(i, step) ==
    [ number |-> i - 1,
      cells |-> IF step.type = "_TestStep"
                THEN <<step.stepDescription, step.expectedBehavior, step.actualBehavior>>
                ELSE <<step.eventDescription, "", "">>,
      statusColor |-> step.statusColor,
      statusString |-> step.statusString,
      dataString |-> step.dataString,
      screenshot |-> screenshotCell(step) ]

\* one <tr> of the step table: enumerate(case.steps, start=1)
stepRow(i, step) ==
    [ number |-> i,
      cells |-> IF step.type = "_TestStep"
                THEN <<step.stepDescription, step.expectedBehavior, step.actualBehavior>>
                ELSE <<step.eventDescription, "", "">>,
      statusColor |-> step.statusColor,
      statusString |-> step.statusString,
      dataString |-> step.dataString,
      screenshot |-> screenshotCell(step) ]

\* the step table without its last row
stepRowsButLast(steps) == [i \in 1 .. Len(steps) - 1 |-> stepRow(i, steps[i])]

stepRows(steps) == [i \in 1 .. Len(steps) |-> stepRow(i, steps[i])]

\* the summary table and the step table written for one case
caseBlock(case) ==
    [ testCaseID |-> case.testCaseID,
      testCaseDescription |-> case.testCaseDescription,
      statusColor |-> statusColor(case),
      statusString |-> statusString(case),
      rows |-> stepRows(case.steps) ]

\* the document: header, then one block per element of allTestCases
renderDocument(ts, sorted, testName, testerName) ==
    [ testName |-> testName,
      testerName |-> testerName,
      blocks |-> [i \in 1 .. Len(sorted) |-> caseBlock(ts[sorted[i]])] ]

(***************************************************************************)
(* State machine of ReportingTestSuite.run(result).                        *)
(***************************************************************************)
\* sequences of n cases with any IDs
RegisteredCases(n, dicts) ==
    { [i \in 1 .. n |-> NewCase(ids[i], "description", data[i])] :
         ids \in [1 .. n -> CaseIDs], data \in [1 .. n -> dicts] }

\* the file system before the suite is constructed: the working directory, with
\* or without a .screenshots directory left in it
startFs(cwdShots) ==
    [ dirs |-> {Cwd} \cup (IF cwdShots THEN {<<".screenshots">>} ELSE {}),
      files |-> {} ]

\* self.screenshot_path
screenshot_path(out) == out \o <<".screenshots">>

\* ReportingTestSuite.__init__: mkdir of outPath and of screenshot_path when missing
suiteInit(fsys, out) == [fsys EXCEPT !.dirs = @ \cup {out, screenshot_path(out)}]

\* outPath: the working directory (the example's testPath), or the default, testName
OutPaths == {Cwd, <<"testName">>}

InitCommon ==
    /\ index = 0
    /\ pc = "suite"
    /\ part = "idle"
    /\ success = TRUE
    /\ raised = <<>>
    /\ result = NewResult
    /\ allTestCases = <<>>
    /\ document = None
    /\ returned = None
    /\ archive = {}
    /\ earlier = 0
    /\ lastCall = [n |-> 0, api |-> None, data |-> NoData, capture |-> "none"]

\* the example's suite: outPath is the working directory, run without zipReport
InitExample ==
    /\ InitCommon
    /\ outPath = Cwd
    /\ zipReport = FALSE
    /\ fs = suiteInit(startFs(FALSE), Cwd)

\* a suite with one case registered
Init ==
    /\ tests \in RegisteredCases(1, {EmptyDict})
    /\ InitExample

\* a suite with up to MaxCases cases registered
InitSuite ==
    /\ \E n \in 1 .. MaxCases : tests \in RegisteredCases(n, {EmptyDict})
    /\ InitExample

\* a suite with one case registered, with either outPath, run with or without
\* zipReport
InitShots ==
    /\ tests \in RegisteredCases(1, {EmptyDict})
    /\ InitCommon
    /\ outPath \in OutPaths
    /\ zipReport \in BOOLEAN
    /\ \E cwdShots \in BOOLEAN : fs = suiteInit(startFs(cwdShots), outPath)

\* the example's suite with one case registered, constructed with or without
\* keyword arguments
InitData ==
    /\ tests \in RegisteredCases(1, {EmptyDict, DictAB})
    /\ InitExample

\* the earlier module: a suite with the default outPath and one case registered,
\* run without a result; result is the default value of the parameter of run
InitOld ==
    /\ tests \in RegisteredCases(1, {EmptyDict})
    /\ InitCommon
    /\ outPath = <<"testName">>
    /\ zipReport = FALSE
    /\ fs = suiteInit(startFs(FALSE), outPath)

\* the arguments the test method passes to reportEvent, reportStep and the
\* assert wrappers
PlainInputs ==
    [ warnings |-> BOOLEAN, statuses |-> BOOLEAN, datas |-> {NoData},
      embeds |-> {FALSE}, elements |-> {None}, founds |-> {TRUE} ]

\* as PlainInputs, every Event a warning
SuiteInputs == [PlainInputs EXCEPT !.warnings = {TRUE}]

ShotInputs ==
    [ warnings |-> {TRUE}, statuses |-> {FALSE}, datas |-> {NoData},
      embeds |-> BOOLEAN, elements |-> Elements, founds |-> BOOLEAN ]

RECURSIVE FieldLists(_)
FieldLists(n) ==
    IF n = 0 THEN {<<>>}
    ELSE FieldLists(n - 1) \cup
         {Append(fields, k) : fields \in FieldLists(n - 1), k \in FieldNames}

DataInputs ==
    [ warnings |-> {FALSE}, statuses |-> {TRUE},
      datas |-> {NoData, StrData("text")} \cup {ListData(fields) : fields \in FieldLists(MaxFields)},
      embeds |-> {FALSE}, elements |-> {None}, founds |-> {TRUE} ]

\* TestSuite.run: the loop takes the next case and calls it (TestCase.run up to setUp)
RunNextTest ==
    /\ pc = "suite" /\ part = "idle"
    /\ index < Len(tests) /\ ~result.shouldStop
    /\ index' = index + 1
    /\ part' = "setUp"
    /\ success' = TRUE
    /\ raised' = <<>>
    /\ UNCHANGED <<earlier, tests, pc, result, allTestCases, document, returned, outPath, zipReport, fs, archive, lastCall>>

\* testPartExecutor: the running part raised exc, which is filed in the result
PartRaises(exc) ==
    /\ result' = fileException(result, index, exc)
    /\ success' = FALSE
    /\ raised' = Append(raised, exc)

\* the running part ended normally
PartReturns == UNCHANGED <<result, success, raised>>

\* TestCase.run: setUp; when it raises, the test method and tearDown are skipped
\* and TestCase.run returns to the suite loop
SetUp ==
    /\ pc = "suite" /\ part = "setUp"
    /\ \E o \in PartOutcomes :
          IF o = None THEN PartReturns /\ part' = "test"
                      ELSE PartRaises(o) /\ part' = "idle"
    /\ UNCHANGED <<earlier, tests, index, pc, allTestCases, document, returned, outPath, zipReport, fs, archive, lastCall>>

\* what a call of reportEvent or reportStep leaves behind, call being what the
\* method returns in the model: the case, the file system and, when the capture
\* raised, the exception that ends the test method
Reported(api, call, data, element) ==
    /\ tests' = [tests EXCEPT ![index] = call.case]
    /\ fs' = call.fs
    /\ lastCall' = [ n |-> lastCall.n + 1, api |-> api, data |-> data,
                     capture |-> IF element = None THEN "none"
                                 ELSE IF call.raised THEN "raised" ELSE "done" ]

\* the test method calls reportEvent
CallReportEvent(limit, inputs) ==
    /\ pc = "suite" /\ part = "test"
    /\ TotalSteps(tests) < limit
    /\ \E warning \in inputs.warnings, data \in inputs.datas, imageEmbed \in inputs.embeds,
          element \in inputs.elements, found \in inputs.founds :
          LET call == reportEvent(tests[index], fs, "event", warning, data, imageEmbed, element, found)
          IN  /\ Reported("reportEvent", call, data, element)
              /\ IF call.raised THEN PartRaises("Exception") /\ part' = "tearDown"
                                ELSE PartReturns /\ part' = "test"
    /\ UNCHANGED <<earlier, index, pc, allTestCases, document, returned, outPath, zipReport, archive>>

\* the test method calls reportStep
CallReportStep(limit, inputs) ==
    /\ pc = "suite" /\ part = "test"
    /\ TotalSteps(tests) < limit
    /\ \E testStatus \in inputs.statuses, data \in inputs.datas, imageEmbed \in inputs.embeds,
          element \in inputs.elements, found \in inputs.founds :
          LET call == reportStep(tests[index], fs, "step", "expected", "failure",
                                 testStatus, data, imageEmbed, element, found)
          IN  /\ Reported("reportStep", call, data, element)
              /\ IF call.raised THEN PartRaises("Exception") /\ part' = "tearDown"
                                ELSE PartReturns /\ part' = "test"
    /\ UNCHANGED <<earlier, index, pc, allTestCases, document, returned, outPath, zipReport, archive>>

\* an assert wrapper: reportStep with the computed testStatus, then the inherited
\* assertion, whose failureException ends the test method
AssertWrapper(api, testStatus, raises, inputs) ==
    /\ \E data \in inputs.datas, imageEmbed \in inputs.embeds,
          element \in inputs.elements, found \in inputs.founds :
          LET call == reportStep(tests[index], fs, "assertion", "expected", "failure",
                                 testStatus, data, imageEmbed, element, found)
          IN  /\ Reported(api, call, data, element)
              /\ IF call.raised THEN PartRaises("Exception") /\ part' = "tearDown"
                 ELSE IF raises THEN PartRaises("AssertionError") /\ part' = "tearDown"
                 ELSE PartReturns /\ part' = "test"
    /\ UNCHANGED <<earlier, index, pc, allTestCases, document, returned, outPath, zipReport, archive>>

\* the test method calls assertTrue
CallAssertTrue(limit, inputs) ==
    /\ pc = "suite" /\ part = "test"
    /\ TotalSteps(tests) < limit
    /\ \E expr \in Values :
          AssertWrapper("assertTrue", assertTrueStatus(expr), superAssertTrueRaises(expr), inputs)

\* the test method calls assertFalse
CallAssertFalse(limit, inputs) ==
    /\ pc = "suite" /\ part = "test"
    /\ TotalSteps(tests) < limit
    /\ \E expr \in Values :
          AssertWrapper("assertFalse", assertFalseStatus(expr), superAssertFalseRaises(expr), inputs)

\* the test method calls assertEqual
CallAssertEqual(limit, inputs) ==
    /\ pc = "suite" /\ part = "test"
    /\ TotalSteps(tests) < limit
    /\ \E first \in Values, second \in Values :
          AssertWrapper("assertEqual", assertEqualStatus(first, second),
                        superAssertEqualRaises(first, second), inputs)

\* the test method calls assertNotEqual
CallAssertNotEqual(limit, inputs) ==
    /\ pc = "suite" /\ part = "test"
    /\ TotalSteps(tests) < limit
    /\ \E first \in Values, second \in Values :
          AssertWrapper("assertNotEqual", assertNotEqualStatus(first, second),
                        superAssertNotEqualRaises(first, second), inputs)

\* the test method returns, or raises something that is not an assertion failure
\* (a locator that finds nothing, a missing data key)
TestEnds ==
    /\ pc = "suite" /\ part = "test"
    /\ \/ PartReturns
       \/ PartRaises("Exception")
    /\ part' = "tearDown"
    /\ UNCHANGED <<earlier, tests, index, pc, allTestCases, document, returned, outPath, zipReport, fs, archive, lastCall>>

\* TestCase.run: tearDown, run whenever setUp succeeded; then addSuccess when no
\* part raised, and TestCase.run returns to the suite loop
TearDown ==
    /\ pc = "suite" /\ part = "tearDown"
    /\ \E o \in PartOutcomes :
          IF o = None
          THEN /\ result' = IF success THEN addSuccess(result, index) ELSE result
               /\ UNCHANGED <<success, raised>>
          ELSE PartRaises(o)
    /\ part' = "idle"
    /\ UNCHANGED <<earlier, tests, index, pc, allTestCases, document, returned, outPath, zipReport, fs, archive, lastCall>>

\* pjoin(self.outPath, self.testName + '.html') and the path of the zip file
reportFile(out, testName) == File(out, <<testName, ".html">>)
zipFile(out, testName) == File(out, <<testName, ".zip">>)

\* os.walk that does not descend: the files of the top directory alone
walkTopOnly(fsys, top) == {f \in fsys.files : f.dir = top}

\* the files os.walk(top) yields: every file of top and of the directories below
\* it, each once; nothing when top is missing
walk(fsys, top) ==
    IF top \in fsys.dirs THEN {f \in fsys.files : IsPrefix(top, f.dir)} ELSE {}

\* the zip file after zf.write(p) for p in paths, paths being the walked files
\* followed by filePath: each entry with the number of times it was written
zipEntries(walked, filePath) ==
    { <<p, (IF p \in walked THEN 1 ELSE 0) + (IF p = filePath THEN 1 ELSE 0)>> :
         p \in walked \cup {filePath} }

\* shutil.rmtree(top): top and everything below it
rmtree(fsys, top) ==
    [ dirs |-> {d \in fsys.dirs : ~IsPrefix(top, d)},
      files |-> {f \in fsys.files : ~IsPrefix(top, f.dir)} ]

\* the file system after writeReport: the document written, and with zipReport
\* the zip file written, the screenshot directory removed and the document
\* removed; when the screenshot directory is missing rmtree raises and the
\* document stays
writeReportFiles(fsys, out, testName, zip) ==
    LET filePath == reportFile(out, testName)
        written == [fsys EXCEPT !.files = @ \cup {filePath}]
        zipped == [written EXCEPT !.files = @ \cup {zipFile(out, testName)}]
    IN  IF ~zip THEN written
        ELSE IF screenshot_path(out) \notin fsys.dirs THEN zipped
        ELSE [rmtree(zipped, screenshot_path(out)) EXCEPT !.files = @ \ {filePath}]

\* ReportingTestSuite.run once the first case has been taken: writeReport without
\* waiting for the loop of TestSuite.run to end
WriteReportEarly ==
    /\ pc = "suite" /\ part = "idle"
    /\ index >= 1
    /\ allTestCases' = sortByID(tests, chainBuckets(result))
    /\ document' = renderDocument(tests, allTestCases', "testName", "testerName")
    /\ fs' = writeReportFiles(fs, outPath, "testName", zipReport)
    /\ archive' = IF zipReport
                  THEN zipEntries(walk(fs, screenshot_path(outPath)), reportFile(outPath, "testName"))
                  ELSE archive
    /\ IF zipReport /\ screenshot_path(outPath) \notin fs.dirs
       THEN pc' = "raised" /\ returned' = returned
       ELSE pc' = "done" /\ returned' = result
    /\ UNCHANGED <<earlier, tests, index, part, success, raised, result, outPath, zipReport, lastCall>>

\* ReportingTestSuite.run after the loop of TestSuite.run has ended (every case
\* was taken, or the result asked to stop): writeReport, then return resultObj;
\* when rmtree raises, run raises and returns nothing
WriteReport ==
    /\ pc = "suite" /\ part = "idle"
    /\ index = Len(tests) \/ result.shouldStop
    /\ allTestCases' = sortByID(tests, chainBuckets(result))
    /\ document' = renderDocument(tests, allTestCases', "testName", "testerName")
    /\ fs' = writeReportFiles(fs, outPath, "testName", zipReport)
    /\ archive' = IF zipReport
                  THEN zipEntries(walk(fs, screenshot_path(outPath)), reportFile(outPath, "testName"))
                  ELSE archive
    /\ IF zipReport /\ screenshot_path(outPath) \notin fs.dirs
       THEN pc' = "raised" /\ returned' = returned
       ELSE pc' = "done" /\ returned' = result
    /\ UNCHANGED <<earlier, tests, index, part, success, raised, result, outPath, zipReport, lastCall>>

(***************************************************************************)
(* The earlier-generation module, src/reporting_unittest.py. Its           *)
(* reportEvent, reportStep and rendering are those of the packaged module  *)
(* as far as calls without data and element go; its assert wrappers and    *)
(* its run differ.                                                         *)
(***************************************************************************)
\* reportStep called with the keyword elementIDs, which it does not have: the
\* call raises TypeError before the body of reportStep starts
reportStepElementIDs(case, fsys) == [raised |-> TRUE, fs |-> fsys, case |-> case]

\* an assert wrapper of the earlier module: testStatus is computed, then
\* self.reportStep(..., elementIDs=elementIDs), whose TypeError ends the test method
OldAssertWrapper(api, testStatus) ==
    /\ pc = "suite" /\ part = "test"
    /\ LET call == reportStepElementIDs(tests[index], fs)
       IN  /\ Reported(api, call, NoData, None)
           /\ IF call.raised THEN PartRaises("Exception") /\ part' = "tearDown"
              ELSE PartReturns /\ part' = "test"
    /\ UNCHANGED <<earlier, index, pc, allTestCases, document, returned, outPath, zipReport, archive>>

OldCallAssertTrue == \E expr \in Values : OldAssertWrapper("assertTrue", assertTrueStatus(expr))
OldCallAssertFalse == \E expr \in Values : OldAssertWrapper("assertFalse", assertFalseStatus(expr))
OldCallAssertEqual ==
    \E first \in Values, second \in Values :
        OldAssertWrapper("assertEqual", assertEqualStatus(first, second))
OldCallAssertNotEqual ==
    \E first \in Values, second \in Values :
        OldAssertWrapper("assertNotEqual", assertNotEqualStatus(first, second))

\* run of the earlier module after the loop of TestSuite.run has ended: the
\* report is written from the result, which is returned
OldRunEnds ==
    /\ pc = "suite" /\ part = "idle"
    /\ index = Len(tests) \/ result.shouldStop
    /\ allTestCases' = sortByID(tests, chainBuckets(result))
    /\ document' = renderDocument(tests, allTestCases', "testName", "testerName")
    /\ fs' = [fs EXCEPT !.files = @ \cup {reportFile(outPath, "testName")}]
    /\ returned' = result
    /\ pc' = "done"
    /\ UNCHANGED <<earlier, tests, index, part, success, raised, result, outPath, zipReport, archive, lastCall>>

\* run of the earlier module called again without a result, on a suite with one
\* new case: result is the default value of the parameter, the one
\* ReportingTestResult made when run was defined, as the call before left it
OldRunAgain ==
    /\ pc = "done"
    /\ Len(tests) < MaxRuns
    /\ \E new \in RegisteredCases(1, {EmptyDict}) : tests' = tests \o new
    /\ earlier' = Len(tests)
    /\ pc' = "suite"
    /\ allTestCases' = <<>>
    /\ document' = None
    /\ returned' = None
    /\ UNCHANGED <<index, part, success, raised, result, outPath, zipReport, fs, archive, lastCall>>

NextWith(limit, inputs) ==
    \/ RunNextTest
    \/ SetUp
    \/ CallReportEvent(limit, inputs)
    \/ CallReportStep(limit, inputs)
    \/ CallAssertTrue(limit, inputs)
    \/ CallAssertFalse(limit, inputs)
    \/ CallAssertEqual(limit, inputs)
    \/ CallAssertNotEqual(limit, inputs)
    \/ TestEnds
    \/ TearDown
    \/ WriteReport

\* a test method that reports with reportEvent and reportStep alone
NextReports(limit, inputs) ==
    \/ RunNextTest
    \/ SetUp
    \/ CallReportEvent(limit, inputs)
    \/ CallReportStep(limit, inputs)
    \/ TestEnds
    \/ TearDown
    \/ WriteReport

Next == NextWith(MaxSteps, PlainInputs)
NextSuite == NextWith(SuiteSteps, SuiteInputs)
NextShots == NextReports(ShotSteps, ShotInputs)
NextData == NextReports(DataSteps, DataInputs)

NextOld ==
    \/ RunNextTest
    \/ SetUp
    \/ CallReportEvent(SuiteSteps, SuiteInputs)
    \/ CallReportStep(SuiteSteps, SuiteInputs)
    \/ OldCallAssertTrue
    \/ OldCallAssertFalse
    \/ OldCallAssertEqual
    \/ OldCallAssertNotEqual
    \/ TestEnds
    \/ TearDown
    \/ OldRunEnds
    \/ OldRunAgain

\* one registered case, up to MaxSteps Step Records
Spec == Init /\ [][Next]_vars

\* up to MaxCases registered cases, up to SuiteSteps Step Records in the run
SpecSuite == InitSuite /\ [][NextSuite]_vars

\* one registered case that captures screenshots, up to ShotSteps Step Records
SpecShots == InitShots /\ [][NextShots]_vars

\* one registered case that records data strings, up to DataSteps Step Records
SpecData == InitData /\ [][NextData]_vars

\* the earlier-generation module: up to MaxRuns calls of run without a result,
\* one case each, up to SuiteSteps Step Records
SpecOld == InitOld /\ [][NextOld]_vars

(***************************************************************************)
(* Properties.                                                             *)
(***************************************************************************)
Range(f) == {f[i] : i \in DOMAIN f}
Cases == 1 .. Len(tests)

\* position of a status in the order PASS < WARNING < FAIL
Rank(status) == IF status = PASS THEN "a" ELSE IF status = WARNING THEN "b" ELSE "c"
RankLeq(s, t) == Rank(s) = "a" \/ Rank(t) = "c" \/ Rank(s) = Rank(t)

IsFailingStep(step) == step.type = "_TestStep" /\ ~step.testStatus
IsWarningEvent(step) == step.type = "_TestEvent" /\ step.warning

\* C1: across every step of the run the status of every case stays or moves up in
\* the order PASS < WARNING < FAIL, and a status that is FAIL stays FAIL.
C1_StatusMonotone ==
    [][\A i \in Cases :
          /\ RankLeq(tests[i].status, tests'[i].status)
          /\ tests[i].status = FAIL => tests'[i].status = FAIL]_vars

\* a case that failed, then recorded a warning Event and a passing Assertion
\* Step, and is FAIL
C1_Witness ==
    \E i \in Cases :
        /\ tests[i].status = FAIL
        /\ \E a, b, c \in 1 .. Len(tests[i].steps) :
              /\ a < b /\ a < c
              /\ IsFailingStep(tests[i].steps[a])
              /\ IsWarningEvent(tests[i].steps[b])
              /\ tests[i].steps[c].type = "_TestStep" /\ tests[i].steps[c].testStatus

\* C2: in every reachable state the status of every case is FAIL iff its steps hold
\* a failing Assertion Step, WARNING iff they hold none but hold a warning Event,
\* PASS iff they hold neither.
C2_StatusFromSteps ==
    \A i \in Cases :
        LET steps == tests[i].steps
            anyFail == \E k \in 1 .. Len(steps) : IsFailingStep(steps[k])
            anyWarn == \E k \in 1 .. Len(steps) : IsWarningEvent(steps[k])
        IN  /\ tests[i].status = FAIL <=> anyFail
            /\ tests[i].status = WARNING <=> (~anyFail /\ anyWarn)
            /\ tests[i].status = PASS <=> (~anyFail /\ ~anyWarn)

\* a case that is WARNING although its last record is a passing Assertion Step
\* recorded after the warning Event
C2_Witness ==
    \E i \in Cases :
        LET steps == tests[i].steps
        IN  /\ Len(steps) >= 2
            /\ IsWarningEvent(steps[1])
            /\ steps[Len(steps)].type = "_TestStep" /\ steps[Len(steps)].testStatus
            /\ tests[i].status = WARNING

\* the step in which an assert wrapper of the running case raised
WrapperFailedStep ==
    /\ part = "test"
    /\ raised' = Append(raised, "AssertionError")

\* the failing record of an assert wrapper is the last record of its case, which is FAIL
FailingAssertIsLast ==
    \A i \in Cases : \A k \in 1 .. Len(tests[i].steps) :
        (IsFailingStep(tests[i].steps[k]) /\ tests[i].steps[k].stepDescription = "assertion")
            => (k = Len(tests[i].steps) /\ tests[i].status = FAIL)

\* C3: a step in which an assert wrapper raises appends exactly one record to the
\* running case, a failing Assertion Step, and leaves the status FAIL; a case that
\* is not in its test method gets no record; and so, after every step, the failing
\* record of a wrapper is the last record of its case.
C3_FailingAssertHalts ==
    [][/\ WrapperFailedStep =>
             /\ Len(tests'[index].steps) = Len(tests[index].steps) + 1
             /\ SubSeq(tests'[index].steps, 1, Len(tests[index].steps)) = tests[index].steps
             /\ IsFailingStep(tests'[index].steps[Len(tests'[index].steps)])
             /\ tests'[index].status = FAIL
             /\ part' # "test"
       /\ \A i \in Cases : (i # index \/ part # "test") => tests'[i] = tests[i]
       /\ index' >= index
       /\ FailingAssertIsLast']_vars

\* the scripted case [event, assertTrue(false), event]: the run is over with two
\* records, the second the failing assertion, and the status FAIL
C3_Witness ==
    /\ pc = "done"
    /\ \E i \in Cases :
          /\ Len(tests[i].steps) = 2
          /\ tests[i].steps[1].type = "_TestEvent"
          /\ IsFailingStep(tests[i].steps[2])
          /\ tests[i].steps[2].stepDescription = "assertion"
          /\ tests[i].status = FAIL

\* the case taken last has been classified
Classified == index >= 1 /\ part = "idle"

\* C4: once a case is classified, it is in successes iff no part of it raised, in
\* failures iff a part raised an assertion failure, in errors iff a part raised
\* another exception.
C4_BucketByEnding ==
    Classified =>
        /\ index \in Range(result.successes) <=> raised = <<>>
        /\ index \in Range(result.failures) <=> "AssertionError" \in Range(raised)
        /\ index \in Range(result.errors) <=> "Exception" \in Range(raised)

\* a case whose test method recorded steps and was then stopped by an exception
\* that is no assertion failure, classified as errored
C4_Witness ==
    /\ Classified
    /\ raised = <<"Exception">>
    /\ tests[index].steps # <<>>
    /\ result.errors = <<index>>

\* how often case i is recorded in a list of case references
RECURSIVE Occurrences(_, _)
Occurrences(i, cases) ==
    IF cases = <<>> THEN 0
    ELSE (IF Head(cases) = i THEN 1 ELSE 0) + Occurrences(i, Tail(cases))

\* C5: every case that finished executing is recorded exactly once in the three
\* collections taken together, whatever its setUp, test method and tearDown ended with.
C5_ExactlyOneBucket ==
    \A i \in Cases :
        (i < index \/ (i = index /\ part = "idle"))
            => Occurrences(i, chainBuckets(result)) = 1

\* C6: when the run is over the document holds exactly one case block for every
\* case that was executed.
C6_OneBlockPerCase ==
    pc = "done" =>
        /\ Len(document.blocks) = Len(allTestCases)
        /\ \A i \in 1 .. index : Occurrences(i, allTestCases) = 1

\* ascending in the string order of the IDs
AscendingByID(cases) ==
    \A p, q \in 1 .. Len(cases) :
        p < q => StrLessEq(tests[cases[p]].testCaseID, tests[cases[q]].testCaseID)

\* the elements of cases that carry the ID id, in their order
WithID(cases, id) ==
    LET hasID(c) == tests[c].testCaseID = id
    IN  SelectSeq(cases, hasID)

\* C7: when the run is over the blocks are in ascending string order of case ID,
\* the cases of equal ID in the order they have in succeeded + failed + errored,
\* and block p is the block of the p-th case of that order.
C7_StableSortByID ==
    pc = "done" =>
        /\ AscendingByID(allTestCases)
        /\ \A id \in CaseIDs :
              WithID(allTestCases, id) = WithID(chainBuckets(result), id)
        /\ Len(document.blocks) = Len(chainBuckets(result))
        /\ \A p \in 1 .. Len(document.blocks) :
              document.blocks[p] = caseBlock(tests[allTestCases[p]])

\* a report whose blocks are not in bucket order: a case with a larger ID was
\* recorded before one with a smaller ID
C7_Witness ==
    /\ pc = "done"
    /\ Len(allTestCases) >= 2
    /\ allTestCases # chainBuckets(result)
    /\ \E p, q \in 1 .. Len(allTestCases) :
          p < q /\ tests[allTestCases[p]].testCaseID # tests[allTestCases[q]].testCaseID

\* case i has not been started: it is as constructed and in no collection
Untouched(i) ==
    /\ tests[i] = NewCase(tests[i].testCaseID, tests[i].testCaseDescription, tests[i].data)
    /\ i \notin Range(chainBuckets(result))

\* in the document a block with a smaller ID precedes every block with a larger ID
BlocksOrderedByID ==
    pc = "done" =>
        \A p, q \in 1 .. Len(document.blocks) :
            StrLess(document.blocks[p].testCaseID, document.blocks[q].testCaseID) => p < q

\* C8: the suite takes the cases one by one in registration order, the next one
\* only when the one before has returned, only the case taken last changes and
\* the cases not yet taken are untouched; and after every step, in the report a
\* block with a smaller ID precedes every block with a larger ID wherever the two
\* cases stood in the execution order.
C8_SequentialThenByID ==
    [][/\ index' \in {index, index + 1}
       /\ index' = index + 1 => (part = "idle" /\ part' # "idle")
       /\ \A i \in Cases : i # index => tests'[i] = tests[i]
       /\ \A i \in Cases : i # index =>
             Occurrences(i, chainBuckets(result')) = Occurrences(i, chainBuckets(result))
       /\ \A i \in Cases : i > index' => Untouched(i)'
       /\ BlocksOrderedByID']_vars

\* a finished run of two cases where the case executed first is rendered last
C8_Witness ==
    /\ pc = "done"
    /\ Len(tests) >= 2
    /\ index = Len(tests)
    /\ \E p, q \in 1 .. Len(allTestCases) :
          p < q /\ allTestCases[p] > allTestCases[q]
               /\ document.blocks[p].testCaseID # document.blocks[q].testCaseID

\* C9: when the run is over every registered case has been taken and is recorded
\* in one of the collections, whatever the earlier cases raised, and run has
\* returned the result to its caller.
C9_AllCasesExecuted ==
    pc = "done" =>
        /\ index = Len(tests)
        /\ \A i \in Cases : i \in Range(chainBuckets(result))
        /\ returned = result

\* a finished run whose first case failed an assertion or raised and whose last
\* case is classified all the same
C9_Witness ==
    /\ pc = "done"
    /\ Len(tests) >= 2
    /\ 1 \in Range(result.failures) \cup Range(result.errors)
    /\ Len(tests) \in Range(chainBuckets(result))

\* the step rows of every block are the Step Records of its case, one row per
\* record, in order and numbered from 1
RowsMatchSteps ==
    pc = "done" =>
        \A p \in 1 .. Len(document.blocks) :
            LET rows == document.blocks[p].rows
                steps == tests[allTestCases[p]].steps
            IN  /\ Len(rows) = Len(steps)
                /\ \A k \in 1 .. Len(steps) :
                      /\ rows[k].number = k
                      /\ rows[k].statusString = steps[k].statusString
                      /\ rows[k].cells[1] = (IF steps[k].type = "_TestStep"
                                             THEN steps[k].stepDescription
                                             ELSE steps[k].eventDescription)

\* C10: a case that has raised gets no further record, and once the run is over
\* the step rows of every block are exactly the Step Records of its case.
C10_RowsAreRecordedSteps ==
    [][/\ (raised # <<>> /\ index' = index) => tests' = tests
       /\ RowsMatchSteps']_vars

\* a finished run whose case recorded two steps, was stopped, and is rendered
C10_Witness ==
    /\ pc = "done"
    /\ raised # <<>>
    /\ Len(tests[index].steps) >= 2
    /\ Len(document.blocks) >= 1

\* the label and the colour the report shows for a status
LabelOf(status) == IF status = FAIL THEN "FAIL" ELSE IF status = PASS THEN "PASS" ELSE "WARNING"
ColourOf(status) == IF status = FAIL THEN "red" ELSE IF status = PASS THEN "green" ELSE "yellow"

\* the status the Step Records of a case add up to
Rollup(steps) ==
    IF \E k \in 1 .. Len(steps) : IsFailingStep(steps[k]) THEN FAIL
    ELSE IF \E k \in 1 .. Len(steps) : IsWarningEvent(steps[k]) THEN WARNING
    ELSE PASS

\* C11: a step that files a case in successes, failures or errors without a
\* reporting call leaves every case as it is, and the label and the colour of
\* every block of the document are those of the rollup of the Step Records of its
\* case, whichever collection the case was taken from.
C11_StatusNotBucket ==
    [][/\ (result' # result /\ lastCall'.n = lastCall.n) => tests' = tests
       /\ pc' = "done" =>
             \A p \in 1 .. Len(document'.blocks) :
                 LET rollup == Rollup(tests'[allTestCases'[p]].steps)
                 IN  /\ document'.blocks[p].statusString = LabelOf(rollup)
                     /\ document'.blocks[p].statusColor = ColourOf(rollup)]_vars

\* a rendered run with a case in successes shown as FAIL and a case in errors
\* shown as PASS
C11_Witness ==
    /\ pc = "done"
    /\ \E p, q \in 1 .. Len(document.blocks) :
          /\ allTestCases[p] \in Range(result.successes)
          /\ document.blocks[p].statusString = "FAIL"
          /\ document.blocks[p].statusColor = "red"
          /\ allTestCases[q] \in Range(result.errors)
          /\ document.blocks[q].statusString = "PASS"
          /\ document.blocks[q].statusColor = "green"

\* dir is root or a directory below it
Below(root, dir) == Len(dir) >= Len(root) /\ \A k \in 1 .. Len(root) : dir[k] = root[k]

\* the files at or below a directory
UnderRoot(fsys, root) == {f \in fsys.files : Below(root, f.dir)}

\* C12: when writeReport with zipReport returns, no directory and no file is left
\* at or below the suite's screenshot directory, the document file is gone, and
\* the zip file holds the files that were below the screenshot directory when
\* writeReport began and the document, each once and nothing else.
C12_ZipExact ==
    [][(pc' = "done" /\ zipReport) =>
          LET root == outPath \o <<".screenshots">>
              doc == File(outPath, <<"testName", ".html">>)
          IN  /\ \A d \in fs'.dirs : ~Below(root, d)
              /\ UnderRoot(fs', root) = {}
              /\ doc \notin fs'.files
              /\ archive' = {<<f, 1>> : f \in UnderRoot(fs, root) \cup {doc}}]_vars

\* a zipped run whose archive holds two screenshots from the case's folder and
\* the document
C12_Witness ==
    /\ pc = "done" /\ zipReport
    /\ Cardinality(archive) = 3
    /\ \E e \in archive : Len(e[1].dir) = Len(outPath) + 2

\* the image files the cases captured
Captured ==
    UNION {{tests[i].steps[k].imagePath : k \in 1 .. Len(tests[i].steps)} : i \in Cases} \ {NoPath}

\* C13: after a run with zipReport, every image file a case captured is an entry
\* of the zip file, whichever outPath the suite was constructed with.
C13_CapturesArchived ==
    (pc = "done" /\ zipReport) => \A f \in Captured : \E e \in archive : e[1] = f

\* C14: the image paths of the Step Records of one case are pairwise different,
\* also when the captures were made under the same description.
C14_UniqueImagePaths ==
    \A i \in Cases :
        \A k, l \in 1 .. Len(tests[i].steps) :
            (k # l /\ tests[i].steps[k].imagePath # NoPath) =>
                tests[i].steps[k].imagePath # tests[i].steps[l].imagePath

\* a case with two captures made by reportEvent under the same description, both
\* files on disk
C14_Witness ==
    \E i \in Cases :
        \E k, l \in 1 .. Len(tests[i].steps) :
            /\ k < l
            /\ tests[i].steps[k].type = "_TestEvent" /\ tests[i].steps[l].type = "_TestEvent"
            /\ tests[i].steps[k].imagePath # NoPath /\ tests[i].steps[l].imagePath # NoPath
            /\ {tests[i].steps[k].imagePath, tests[i].steps[l].imagePath} \subseteq fs.files

\* the lines of the requested names that are keys of the dict, in the order requested
RECURSIVE ExpectedLines(_, _)
ExpectedLines(dict, names) ==
    IF names = <<>> THEN <<>>
    ELSE (IF Head(names) \in dict.keys
          THEN << <<Head(names), ": '">> \o pyStr(dict.val[Head(names)]) \o <<"'">> >>
          ELSE <<>>)
         \o ExpectedLines(dict, Tail(names))

\* lines with the line separator between them
RECURSIVE JoinLines(_)
JoinLines(lines) ==
    IF lines = <<>> THEN <<>>
    ELSE IF Len(lines) = 1 THEN lines[1]
    ELSE JoinLines(SubSeq(lines, 1, Len(lines) - 1)) \o <<"<br>">> \o lines[Len(lines)]

\* C15: the data string of the record a call appends is, for a list of names, the
\* name: 'value' lines of the names that are keys of the case's data, in the order
\* requested and joined by the line separator; for a string, that string; for
\* None, the empty string. With data a=1, b=2 the request [a, c] gives the a line alone.
C15_DataString ==
    [][lastCall'.n = lastCall.n + 1 =>
          LET case == tests'[index]
              dataString == case.steps[Len(case.steps)].dataString
              data == lastCall'.data
          IN  /\ data.kind = "list" => dataString = JoinLines(ExpectedLines(case.data, data.fields))
              /\ data.kind = "str" => dataString = <<data.text>>
              /\ data.kind = "None" => dataString = <<>>
              /\ (case.data = DictAB /\ data = ListData(<<"a", "c">>)) =>
                     dataString = <<"a", ": '", "1", "'">>]_vars

\* a case constructed with a=1, b=2 whose latest call requested [a, c] and
\* recorded the a line alone
C15_Witness ==
    /\ index = 1
    /\ tests[1].data = DictAB
    /\ lastCall.data = ListData(<<"a", "c">>)
    /\ Len(tests[1].steps) = 1
    /\ tests[1].steps[1].dataString = <<"a", ": '", "1", "'">>

\* C16: a reporting call that returns appends one record at the end of the steps
\* of the running case and changes no other record of any case, and in the
\* document the rows of a block are as many as the Step Records of its case, the
\* k-th row numbered k and showing the k-th record.
C16_AppendOnly ==
    [][/\ (lastCall'.n = lastCall.n + 1 /\ lastCall'.capture # "raised") =>
             /\ Len(tests'[index].steps) = Len(tests[index].steps) + 1
             /\ SubSeq(tests'[index].steps, 1, Len(tests[index].steps)) = tests[index].steps
             /\ \A j \in Cases : j # index => tests'[j] = tests[j]
       /\ lastCall'.n = lastCall.n => tests' = tests
       /\ pc' = "done" =>
             \A p \in 1 .. Len(document'.blocks) :
                 LET rows == document'.blocks[p].rows
                     steps == tests'[allTestCases'[p]].steps
                 IN  /\ Len(rows) = Len(steps)
                     /\ \A k \in 1 .. Len(rows) :
                           /\ rows[k].number = k
                           /\ rows[k].statusString = steps[k].statusString
                           /\ rows[k].dataString = steps[k].dataString]_vars

\* a rendered case with a warning Event, a failed Step and a passed Step, shown
\* in that order in rows 1, 2 and 3
C16_Witness ==
    /\ pc = "done"
    /\ \E p \in 1 .. Len(document.blocks) :
          LET rows == document.blocks[p].rows
          IN  /\ Len(rows) = 3
              /\ <<rows[1].number, rows[2].number, rows[3].number>> = <<1, 2, 3>>
              /\ <<rows[1].statusString, rows[2].statusString, rows[3].statusString>>
                    = <<"WARNING", "FAIL", "PASS">>

\* C17: in the document the screenshot cell of a row is N/A when its record has
\* no image path, whatever the embed flag; an embedded image of the path when
\* the record has a path and the flag is set; a link to the path when it has a
\* path and the flag is not set.
C17_ScreenshotCell ==
    pc = "done" =>
        \A p \in 1 .. Len(document.blocks) :
            \A k \in 1 .. Len(document.blocks[p].rows) :
                LET cell == document.blocks[p].rows[k].screenshot
                    step == tests[allTestCases[p]].steps[k]
                IN  /\ cell.form \in {"N/A", "image", "link"}
                    /\ step.imagePath = NoPath => cell.form = "N/A"
                    /\ (step.imagePath # NoPath /\ step.imageEmbed) =>
                          (cell.form = "image" /\ cell.src = step.imagePath)
                    /\ (step.imagePath # NoPath /\ ~step.imageEmbed) =>
                          (cell.form = "link" /\ cell.src = step.imagePath)

\* a rendered case with an N/A cell for a record with the embed flag set and no
\* path, an embedded image and a link
C17_Witness ==
    /\ pc = "done"
    /\ \E p \in 1 .. Len(document.blocks) :
          \E a, b, c \in 1 .. Len(document.blocks[p].rows) :
              LET rows == document.blocks[p].rows
                  steps == tests[allTestCases[p]].steps
              IN  /\ rows[a].screenshot.form = "N/A" /\ steps[a].imageEmbed
                  /\ rows[b].screenshot.form = "image"
                  /\ rows[c].screenshot.form = "link"

\* C19: every step of the run is taken before the report; the one step that
\* renders the document starts when every registered case has been taken, none
\* is executing and each is in successes, failures or errors; it leaves cases
\* and result as they are and returns that result; no other step writes the
\* document or returns.
C19_ReportLast ==
    [][/\ pc = "suite"
       /\ pc' = "suite" => (document' = document /\ returned' = returned)
       /\ pc' # "suite" =>
             /\ pc' = "done"
             /\ index = Len(tests) /\ part = "idle"
             /\ \A i \in Cases : i \in Range(chainBuckets(result))
             /\ tests' = tests /\ result' = result
             /\ returned' = result
             /\ Len(document'.blocks) = Len(chainBuckets(result))]_vars

\* a finished run of two cases, both executed and classified, with the result
\* returned
C19_Witness ==
    /\ pc = "done"
    /\ Len(tests) = 2 /\ index = 2
    /\ returned = result
    /\ 1 \in Range(result.successes) /\ 2 \in Range(result.failures)
    /\ Len(document.blocks) = 2

\* C20: a reporting call whose capture raises leaves every case as it is, ends
\* the test method with an exception that is no assertion failure, and the case
\* is in errors; no step takes a record away from a case.
C20_CaptureRaiseAborts ==
    [][/\ (lastCall'.n = lastCall.n + 1 /\ lastCall'.capture = "raised") =>
             /\ tests' = tests
             /\ part = "test" /\ part' = "tearDown"
             /\ raised' = Append(raised, "Exception")
             /\ index \in Range(result'.errors)
       /\ \A i \in Cases :
             /\ Len(tests'[i].steps) >= Len(tests[i].steps)
             /\ SubSeq(tests'[i].steps, 1, Len(tests[i].steps)) = tests[i].steps]_vars

\* a rendered case that recorded a warning Event with a capture, then made a call
\* whose capture raised: WARNING, in errors, its row in the document
C20_Witness ==
    /\ pc = "done"
    /\ lastCall.capture = "raised" /\ lastCall.n = 2
    /\ Len(tests[1].steps) = 1
    /\ tests[1].steps[1].imagePath # NoPath
    /\ tests[1].status = WARNING
    /\ result.errors = <<1>> /\ result.successes = <<>>
    /\ Len(document.blocks[1].rows) = 1

\* the four assert wrappers
Wrappers == {"assertTrue", "assertFalse", "assertEqual", "assertNotEqual"}

\* the step is a call of an assert wrapper whose capture did not raise
WrapperAppended == lastCall'.n = lastCall.n + 1 /\ lastCall'.api \in Wrappers /\ lastCall'.capture # "raised"

\* C21: a call of an assert wrapper whose capture does not raise appends its
\* Assertion Step; the call raises an assertion failure iff that record has
\* outcome false, which ends the test method; with outcome true nothing is
\* raised and the test method goes on.
C21_WrapperOutcomeAgrees ==
    [][WrapperAppended =>
             LET step == tests'[index].steps[Len(tests'[index].steps)]
             IN  /\ Len(tests'[index].steps) = Len(tests[index].steps) + 1
                 /\ step.type = "_TestStep"
                 /\ ~step.testStatus <=> raised' = Append(raised, "AssertionError")
                 /\ ~step.testStatus => part' = "tearDown"
                 /\ step.testStatus => (raised' = raised /\ part' = "test" /\ result' = result)]_vars

\* a case with a passing Assertion Step, a later record, and last a failing
\* Assertion Step that ended the test method with an assertion failure
C21_Witness ==
    /\ part = "tearDown"
    /\ raised = <<"AssertionError">>
    /\ Len(tests[index].steps) = 3
    /\ tests[index].steps[1].type = "_TestStep"
    /\ tests[index].steps[1].stepDescription = "assertion" /\ tests[index].steps[1].testStatus
    /\ tests[index].steps[3].type = "_TestStep"
    /\ tests[index].steps[3].stepDescription = "assertion" /\ ~tests[index].steps[3].testStatus
    /\ lastCall.api = "assertNotEqual"

\* C23: a step that is no reporting call leaves the status of every case as it
\* is; a reporting call leaves the status of every other case as it is and, for
\* the running case: a warning Event turns PASS into WARNING and leaves WARNING
\* and FAIL; a failing Step turns PASS and WARNING into FAIL and leaves FAIL; a
\* non-warning Event and a passing Step leave the status.
C23_StatusChanges ==
    [][/\ lastCall'.n = lastCall.n => \A i \in Cases : tests'[i].status = tests[i].status
       /\ lastCall'.n = lastCall.n + 1 =>
             /\ \A i \in Cases : i # index => tests'[i].status = tests[i].status
             /\ Len(tests'[index].steps) = Len(tests[index].steps) =>
                   tests'[index].status = tests[index].status
             /\ Len(tests'[index].steps) > Len(tests[index].steps) =>
                   LET step == tests'[index].steps[Len(tests'[index].steps)]
                       before == tests[index].status
                       after == tests'[index].status
                   IN  IF step.type = "_TestEvent"
                       THEN IF step.warning /\ before = PASS THEN after = WARNING
                            ELSE after = before
                       ELSE IF ~step.testStatus THEN after = FAIL
                            ELSE after = before]_vars

\* a case that went from PASS to WARNING by a warning Event and from WARNING to
\* FAIL by a failing Step, and stayed FAIL at a later warning Event
C23_Witness ==
    \E i \in Cases :
        /\ Len(tests[i].steps) = 3
        /\ IsWarningEvent(tests[i].steps[1])
        /\ IsFailingStep(tests[i].steps[2]) /\ tests[i].steps[2].stepDescription = "step"
        /\ IsWarningEvent(tests[i].steps[3])
        /\ tests[i].status = FAIL

\* C24: after a call that captures, the folder of the running case and the
\* .screenshots directory above it exist, whether the driver fails or not.
C24_CaptureMakesDirs ==
    [][(lastCall'.n = lastCall.n + 1 /\ lastCall'.capture # "none") =>
          /\ <<".screenshots">> \in fs'.dirs
          /\ <<".screenshots", idText(tests[index].testCaseID)>> \in fs'.dirs]_vars

\* C22: in the earlier module a call of an assert wrapper appends one Assertion
\* Step to the running case, and when the call ends the test method the case is
\* FAIL and in failures.
C22_OldWrapperAppends ==
    [][(lastCall'.n = lastCall.n + 1 /\ lastCall'.api \in Wrappers) =>
          /\ Len(tests'[index].steps) = Len(tests[index].steps) + 1
          /\ tests'[index].steps[Len(tests'[index].steps)].type = "_TestStep"
          /\ part' = "tearDown" =>
                (tests'[index].status = FAIL /\ index \in Range(result'.failures))]_vars

\* C25: in the earlier module the document of a call of run without a result has
\* blocks only for cases that call executed.
C25_OnlyThisRun ==
    pc = "done" => \A p \in 1 .. Len(allTestCases) : allTestCases[p] > earlier

====
